---- MODULE Spec2Model ----
(***************************************************************************)
(* Model of the Streamlit pages of the file utility:                       *)
(*   pages/1_Encrypt_Decrypt_Tool.py  (page "enc", the cipher page)        *)
(*   pages/2_Zip_File_Tool.py         (page "zip", the archive page)       *)
(*   Home.py                          (page "home", the landing page)      *)
(* One browser session.  A script run is split at the points where the     *)
(* claims observe it: validation, staging, invocation, result recording,   *)
(* cleanup.  File names are sequences of one-character strings; a path is  *)
(* the character sequence os.path.join builds, and the file system is      *)
(* keyed by the component list the operating system resolves it to.        *)
(***************************************************************************)
EXTENDS Integers, Sequences, FiniteSets, TLC

\* ---------------------------------------------------------------- bounds
\* number of distinct names tempfile.mkdtemp can hand out
MaxDirs == 2
\* cap on the archive page's clear-generation counter
MaxClears == 1

\* ------------------------------------------------------------ value sets
Pages == {"enc", "zip"}

\* the landing page, which holds no result
HomePage == "home"

\* the external commands, and the one each tool page needs
OPENSSL_COMMAND == "openssl"
ZIP_COMMAND == "zip"
Tools == {OPENSSL_COMMAND, ZIP_COMMAND}
ToolOf(p) == IF p = "enc" THEN OPENSSL_COMMAND ELSE ZIP_COMMAND

\* Optional values: None is the empty tuple, a present value x is <<x>>.
None == <<>>
Some(x) == <<x>>

\* byte strings: b"" and one non-empty content each for uploads and outputs
EmptyBytes == <<>>
UploadBytes == <<"u">>
ToolBytes == <<"o">>
StaleBytes == <<"s">>
OutData == {EmptyBytes, ToolBytes}

\* file names, as character sequences
DotZip == <<".", "z", "i", "p">>
NameAZip == <<"a", ".", "Z", "I", "P">>
NameB == <<"b">>
NameAbs == <<"/", "t", "m", "p", "/", "y">>
NameUp == <<".", ".", "/", "y">>
NameEmpty == <<>>

\* what the uploader can hold, and what the text inputs can hold
UploadNames == {NameAZip}
OutputNames == {NameEmpty, NameAZip, NameB, NameAbs, NameUp}
Passwords == {"", "p"}
Operations == {"Encrypt", "Decrypt"}

\* ------------------------------------------------------ string functions
\* str.lower on the characters the names use
Lower(c) ==
  CASE c = "Z" -> "z"
    [] c = "I" -> "i"
    [] c = "P" -> "p"
    [] c = "N" -> "n"
    [] OTHER -> c

LowerStr(s) == [i \in 1..Len(s) |-> Lower(s[i])]

\* str.endswith
EndsWith(s, suf) ==
  /\ Len(s) >= Len(suf)
  /\ SubSeq(s, Len(s) - Len(suf) + 1, Len(s)) = suf

\* posixpath.join(a, b)
path_join(a, b) ==
  IF Len(b) > 0 /\ b[1] = "/" THEN b
  ELSE IF a = <<>> \/ a[Len(a)] = "/" THEN a \o b
  ELSE a \o <<"/">> \o b

\* the components of a path string, split at "/"
RECURSIVE SplitFrom(_, _, _)
SplitFrom(s, i, cur) ==
  IF i > Len(s) THEN (IF cur = <<>> THEN <<>> ELSE <<cur>>)
  ELSE IF s[i] = "/"
       THEN (IF cur = <<>> THEN <<>> ELSE <<cur>>) \o SplitFrom(s, i + 1, <<>>)
       ELSE SplitFrom(s, i + 1, Append(cur, s[i]))

Split(s) == SplitFrom(s, 1, <<>>)

\* the kernel's resolution of "." and ".." over a component list
RECURSIVE Normalize(_, _)
Normalize(parts, acc) ==
  IF parts = <<>> THEN acc
  ELSE IF Head(parts) = <<".">> THEN Normalize(Tail(parts), acc)
  ELSE IF Head(parts) = <<".", ".">>
       THEN Normalize(Tail(parts),
                      IF acc = <<>> THEN acc ELSE SubSeq(acc, 1, Len(acc) - 1))
       ELSE Normalize(Tail(parts), Append(acc, Head(parts)))

\* the file-system location an absolute path string denotes
Resolve(p) == Normalize(Split(p), <<>>)

IsPrefix(a, b) == Len(a) <= Len(b) /\ SubSeq(b, 1, Len(a)) = a

\* ------------------------------------------------------- the file system
\* tempfile.gettempdir(), as a path string and as a location
TempRoot == <<"/", "t", "m", "p">>

\* the path string of the directory mkdtemp creates under name n
TempDirPath(n) == path_join(TempRoot, <<"w", ToString(n)>>)

\* the directories that exist: "/", the temporary root and the workspaces in ds
ExistingDirs(ds) ==
  {<<>>, Resolve(TempRoot)} \cup {Resolve(TempDirPath(n)) : n \in ds}

Parent(loc) == SubSeq(loc, 1, Len(loc) - 1)

\* open(path, "wb") succeeds: the parent directory exists and path is no directory
CanWrite(ds, loc) ==
  /\ loc # <<>>
  /\ Parent(loc) \in ExistingDirs(ds)
  /\ loc \notin ExistingDirs(ds)

\* os.path.exists
path_exists(f, ds, path) ==
  Resolve(path) \in DOMAIN f \/ Resolve(path) \in ExistingDirs(ds)

\* the file system after data was written at loc by the running request
WriteFile(f, loc, data) ==
  [q \in DOMAIN f \cup {loc} |->
     IF q = loc THEN [data |-> data, age |-> "cur"] ELSE f[q]]

\* os.remove
RemoveFile(f, loc) == [q \in DOMAIN f \ {loc} |-> f[q]]

\* the file system after shutil.rmtree removed directory n and all below it
RemoveTree(f, n) ==
  [q \in {r \in DOMAIN f : ~IsPrefix(Resolve(TempDirPath(n)), r)} |-> f[q]]

\* every file marked as left behind by an earlier request; what such a file
\* holds is not followed further and stands as one value
Aged(f) == [q \in DOMAIN f |-> [data |-> StaleBytes, age |-> "old"]]

\* the files below workspace n
FilesIn(f, n) == {q \in DOMAIN f : IsPrefix(Resolve(TempDirPath(n)), q)}

\* ------------------------------------------------------------- the pages
\* an extension test that does not lower the name first
actual_output_filename_case_sensitive(name) ==
  IF ~EndsWith(name, DotZip) THEN name \o DotZip ELSE name

\* the filename the archive page uses (2_Zip_File_Tool.py, lines 156-162)
actual_output_filename(name) ==
  IF ~EndsWith(LowerStr(name), DotZip) THEN name \o DotZip ELSE name

\* the name the page joins to the workspace to build the output path
OutputNameUsed(p, w) ==
  IF p = "zip" THEN actual_output_filename(w.output_filename_user)
  ELSE w.output_filename_user

\* a validation that forgets to compare the password with its confirmation
ValidateNoConfirm(p, w) ==
  IF w.password = "" THEN "Password cannot be empty."
  ELSE IF w.output_filename_user = <<>>
       THEN (IF p = "zip" THEN "Output ZIP filename cannot be empty."
             ELSE "Output filename cannot be empty.")
  ELSE "ok"

\* input validation of a submission: "ok" or the message shown before st.stop()
Validate(p, w) ==
  IF w.password = "" THEN "Password cannot be empty."
  ELSE IF (p = "zip" \/ w.operation = "Encrypt") /\ w.password # w.password_confirm
       THEN "Passwords do not match."
  ELSE IF w.output_filename_user = <<>>
       THEN (IF p = "zip" THEN "Output ZIP filename cannot be empty."
             ELSE "Output filename cannot be empty.")
  ELSE "ok"

\* the identity Streamlit gives an input widget: its key, which on the archive
\* page carries zip_clear_trigger and on the cipher page is fixed
StatefulWidgets == {"uploaded_file", "password", "password_confirm",
                    "output_filename_user"}

WidgetKey(p, wname, trigger) ==
  IF p = "zip" THEN <<wname, ToString(trigger)>> ELSE <<wname, "fixed">>

\* a widget's value when it is rendered under a new identity
DefaultValue(wname) ==
  CASE wname = "uploaded_file" -> None
    [] wname = "password" -> ""
    [] wname = "password_confirm" -> ""
    [] wname = "output_filename_user" -> NameEmpty
    [] wname = "operation" -> "Encrypt"

DefaultWidgets ==
  [operation |-> DefaultValue("operation"),
   uploaded_file |-> DefaultValue("uploaded_file"),
   password |-> DefaultValue("password"),
   password_confirm |-> DefaultValue("password_confirm"),
   output_filename_user |-> DefaultValue("output_filename_user")]

\* the uploads the browser can hand over
Uploads == {[name |-> n, data |-> UploadBytes] : n \in UploadNames}

\* the input states the user can bring a page to
WidgetStates(p) ==
  {w \in [operation : Operations,
          uploaded_file : {None} \cup {Some(u) : u \in Uploads},
          password : Passwords,
          password_confirm : Passwords,
          output_filename_user : OutputNames] :
     /\ p = "zip" => w.operation = "Encrypt"
     /\ w.operation = "Decrypt" => w.password_confirm = ""}

\* the session-state entries of one page after initialization or reset
EmptyResult ==
  [output_content |-> None, output_filename |-> None, operation_status |-> "None"]

\* --------------------------------------------------------------- state
VARIABLES
  session,            \* per page: output_content, output_filename, operation_status
  zip_clear_trigger,  \* st.session_state.zip_clear_trigger
  page,               \* the page the browser shows
  widgets,            \* the values of the shown page's input widgets
  pc,                 \* position of the running script: idle, validated, staged,
                      \*   invoked, recorded
  temp_dir,           \* the run's temp_dir: None or Some(name)
  proc,               \* what the process wrapper returned
  fault,              \* where the run raised: none, mkdtemp, write, read, present
  dirs,               \* names of the workspace directories that exist
  fs,                 \* the files that exist: location -> [data, age]
  status_msg,         \* text in status_placeholder
  download,           \* download_placeholder: None or Some([data, file_name])
  notices,            \* what the last pass put on the page besides status:
                      \*   warnings, errors, the landing page's closing line
  spawned,            \* processes the running pass has spawned
  call                \* a helper function's call on its own: function, arguments,
                      \*   result

vars == <<session, zip_clear_trigger, page, widgets, pc, temp_dir, proc, fault,
          dirs, fs, status_msg, download, notices, spawned, call>>

DirNames == 0..(MaxDirs - 1)

\* the timeout argument of subprocess.run, in seconds
OPENSSL_TIMEOUT == 60
ZIP_TIMEOUT == 120

\* one timeout for both tools
timeout_seconds_same(p) == OPENSSL_TIMEOUT

timeout_seconds(p) == IF p = "enc" THEN OPENSSL_TIMEOUT ELSE ZIP_TIMEOUT

\* the seconds the tool needs when it is left to run
Durations == {30, 90, 150}

NoProc == [kind |-> "none", returncode |-> 0, success |-> FALSE, needed |-> 0]

\* no helper call is examined
NoCall == [fn |-> "none"]

\* the state of a new browser session
SessionStart ==
  /\ session = [p \in Pages |-> EmptyResult]
  /\ zip_clear_trigger = 0
  /\ widgets = DefaultWidgets
  /\ pc = "idle"
  /\ temp_dir = None
  /\ proc = NoProc
  /\ fault = "none"
  /\ dirs = {}
  /\ fs = <<>>
  /\ status_msg = ""
  /\ download = None
  /\ notices = {}
  /\ spawned = 0

\* the browser opens a tool page
Init ==
  /\ SessionStart
  /\ page \in Pages
  /\ call = NoCall

\* the browser opens the landing page
NavInit ==
  /\ SessionStart
  /\ page = HomePage
  /\ call = NoCall

\* ----------------------------------------------------- rendering a page
\* Python truthiness of st.session_state.output_content
ContentTruthy(s) == s.output_content # None /\ s.output_content[1] # EmptyBytes

\* the condition of the "previous successful result" branch
ShowsPrevious(p, w, s) ==
  /\ w.uploaded_file = None
  /\ s.operation_status = "success"
  /\ ContentTruthy(s)

\* the condition of the cipher page's input-preview branch
PreviewBranch(p, w, s) ==
  /\ p = "enc"
  /\ w.uploaded_file # None
  /\ s.operation_status # "fail"

\* what download_button offers for the held result
Offer(s) == Some([data |-> s.output_content[1], file_name |-> s.output_filename[1]])

\* the location of the staged input of workspace n
InputLoc(n, w) == Resolve(path_join(TempDirPath(n), w.uploaded_file[1].name))

\* the location the tool is told to write to
OutputLoc(p, n, w) == Resolve(path_join(TempDirPath(n), OutputNameUsed(p, w)))

\* a workspace taken without regard to the directories that exist
FreeNamesAny(ds) == DirNames

\* the names tempfile.mkdtemp can choose from: those of no existing directory
FreeNames(ds) == DirNames \ ds

\* the branches below the run branch, for a pass without a pressed Run button
Render(p, w, s) ==
  /\ download' = IF ShowsPrevious(p, w, s) THEN Offer(s) ELSE None
  /\ status_msg' = IF ShowsPrevious(p, w, s)
                   THEN "Showing previous successful result." ELSE ""
  /\ IF PreviewBranch(p, w, s)
     THEN \/ /\ notices' = {}
             /\ UNCHANGED <<dirs, fs>>
          \/ /\ notices' = {"preview_warning"}
             /\ UNCHANGED <<dirs, fs>>
          \/ \E n \in FreeNames(dirs) :
               /\ notices' = {"exception"}
               /\ dirs' = dirs \cup {n}
               /\ fs' = Aged(WriteFile(fs, InputLoc(n, w), w.uploaded_file[1].data))
     ELSE /\ notices' = {}
          /\ UNCHANGED <<dirs, fs>>

\* a new pass starts with the locals of the previous one gone
FreshLocals ==
  /\ temp_dir' = None
  /\ proc' = NoProc
  /\ fault' = "none"
  /\ spawned' = 0

\* a pass that is no run
NoRun == FreshLocals /\ UNCHANGED pc

\* the status texts a run that passed validation ends with
RunMessages == {"successful", "failed", "An error occurred during processing"}

\* the messages after which st.stop() ended the pass
ValidationMessages ==
  {"Password cannot be empty.", "Passwords do not match.",
   "Output filename cannot be empty.", "Output ZIP filename cannot be empty."}

\* what check_openssl / check_zip_command show before st.stop()
ToolMissingMessage == "CRITICAL ERROR: command not found."

\* the pass was cut short, so nothing below the cut is on the page
PassCut ==
  \/ status_msg \in ValidationMessages
  \/ status_msg = ToolMissingMessage
  \/ "exception" \in notices

\* the input widgets of a tool page are on the page and no run is under way
InputsShown == pc = "idle" /\ page \in Pages /\ status_msg # ToolMissingMessage

\* -------------------------------------------------------------- actions
\* the radio button of the cipher page; the confirmation field is only
\* rendered for Encrypt and loses its value when it is not
SetOperation ==
  /\ InputsShown
  /\ page = "enc"
  /\ \E op \in Operations \ {widgets.operation} :
       /\ widgets' = [widgets EXCEPT !.operation = op,
                        !.password_confirm = DefaultValue("password_confirm")]
       /\ Render(page, widgets', session[page])
  /\ NoRun
  /\ UNCHANGED <<session, zip_clear_trigger, page>>
  /\ UNCHANGED call

\* a file is chosen in the uploader, or the chosen file is removed
Upload ==
  /\ InputsShown
  /\ \E u \in ({None} \cup {Some(x) : x \in Uploads}) \ {widgets.uploaded_file} :
       /\ widgets' = [widgets EXCEPT !.uploaded_file = u]
       /\ Render(page, widgets', session[page])
  /\ NoRun
  /\ UNCHANGED <<session, zip_clear_trigger, page>>
  /\ UNCHANGED call

SetPassword ==
  /\ InputsShown
  /\ \E v \in Passwords \ {widgets.password} :
       /\ widgets' = [widgets EXCEPT !.password = v]
       /\ Render(page, widgets', session[page])
  /\ NoRun
  /\ UNCHANGED <<session, zip_clear_trigger, page>>
  /\ UNCHANGED call

SetPasswordConfirm ==
  /\ InputsShown
  /\ page = "zip" \/ widgets.operation = "Encrypt"
  /\ \E v \in Passwords \ {widgets.password_confirm} :
       /\ widgets' = [widgets EXCEPT !.password_confirm = v]
       /\ Render(page, widgets', session[page])
  /\ NoRun
  /\ UNCHANGED <<session, zip_clear_trigger, page>>
  /\ UNCHANGED call

SetOutputName ==
  /\ InputsShown
  /\ \E v \in OutputNames \ {widgets.output_filename_user} :
       /\ widgets' = [widgets EXCEPT !.output_filename_user = v]
       /\ Render(page, widgets', session[page])
  /\ NoRun
  /\ UNCHANGED <<session, zip_clear_trigger, page>>
  /\ UNCHANGED call

\* the offered download is clicked: the script runs again, inputs as they are
DownloadClick ==
  /\ InputsShown
  /\ download # None
  /\ Render(page, widgets, session[page])
  /\ NoRun
  /\ UNCHANGED <<session, zip_clear_trigger, page, widgets>>
  /\ UNCHANGED call

\* a submission that is validated first and resets the held result only when
\* it goes on
SubmitValidatesFirst ==
  /\ InputsShown
  /\ widgets.uploaded_file # None
  /\ notices' = {}
  /\ IF Validate(page, widgets) # "ok"
     THEN /\ status_msg' = Validate(page, widgets)
          /\ pc' = "idle"
          /\ UNCHANGED <<session, download>>
     ELSE /\ status_msg' = "Processing"
          /\ pc' = "validated"
          /\ session' = [session EXCEPT ![page] = EmptyResult]
          /\ download' = None
  /\ FreshLocals
  /\ UNCHANGED <<zip_clear_trigger, page, widgets, dirs, fs>>
  /\ UNCHANGED call

\* Run is pressed with a file selected: reset of the held result, then validation
Submit ==
  /\ InputsShown
  /\ widgets.uploaded_file # None
  /\ session' = [session EXCEPT ![page] = EmptyResult]
  /\ download' = None
  /\ notices' = {}
  /\ IF Validate(page, widgets) # "ok"
     THEN /\ status_msg' = Validate(page, widgets)
          /\ pc' = "idle"
     ELSE /\ status_msg' = "Processing"
          /\ pc' = "validated"
  /\ FreshLocals
  /\ UNCHANGED <<zip_clear_trigger, page, widgets, dirs, fs>>
  /\ UNCHANGED call

\* an except handler that reports the error but records no status
HandleExceptionNoStatus(where) ==
  /\ fault' = where
  /\ session' = session
  /\ status_msg' = "An error occurred during processing"
  /\ pc' = "recorded"

\* an except handler that records the failure under keys both pages share
HandleExceptionEveryPage(where) ==
  /\ fault' = where
  /\ session' = [p \in Pages |-> [session[p] EXCEPT !.operation_status = "fail"]]
  /\ status_msg' = "An error occurred during processing"
  /\ pc' = "recorded"

\* the except handler of the run branch
HandleException(where) ==
  /\ fault' = where
  /\ session' = [session EXCEPT ![page].operation_status = "fail"]
  /\ status_msg' = "An error occurred during processing"
  /\ pc' = "recorded"

\* mkdtemp, then the upload is written into the new directory
Stage ==
  /\ pc = "validated"
  /\ \/ /\ HandleException("mkdtemp")
        /\ UNCHANGED <<temp_dir, dirs, fs>>
     \/ \E n \in FreeNames(dirs) :
          /\ temp_dir' = Some(n)
          /\ dirs' = dirs \cup {n}
          /\ \/ /\ CanWrite(dirs', InputLoc(n, widgets))
                /\ fs' = WriteFile(fs, InputLoc(n, widgets),
                                   widgets.uploaded_file[1].data)
                /\ pc' = "staged"
                /\ UNCHANGED <<fault, session, status_msg>>
             \/ /\ HandleException("write")
                /\ UNCHANGED fs
  /\ UNCHANGED <<zip_clear_trigger, page, widgets, proc, download, notices, spawned>>
  /\ UNCHANGED call

\* the success flag run_openssl_command / run_zip_command return
command_success(kind, returncode) == kind = "exit" /\ returncode = 0

\* the ways the wrapped subprocess.run can end on page p: the binary is not
\* found, another exception is raised, the tool needs longer than the timeout
\* and is killed, or it exits in time with code 0 or 1
ProcOutcomes(p) ==
  {[kind |-> "notfound", returncode |-> 1, needed |-> 0],
   [kind |-> "error", returncode |-> 1, needed |-> 0]}
  \cup {[kind |-> "timeout", returncode |-> 1, needed |-> d] :
          d \in {x \in Durations : x > timeout_seconds(p)}}
  \cup {[kind |-> "exit", returncode |-> rc, needed |-> d] :
          rc \in {0, 1}, d \in {x \in Durations : x <= timeout_seconds(p)}}

\* a wrapper that starts the tool a second time when it did not exit with 0
AttemptsWithRetry(o) ==
  IF o.kind \in {"exit", "timeout"}
  THEN (IF o.kind = "exit" /\ o.returncode = 0 THEN 1 ELSE 2)
  ELSE 0

\* the processes one call of the wrapper starts: subprocess.run is called once
Attempts(o) == IF o.kind \in {"exit", "timeout"} THEN 1 ELSE 0

\* the external tool is run on the staged input; it may write the output path
Invoke ==
  /\ pc = "staged"
  /\ \E o \in ProcOutcomes(page), wr \in {None} \cup {Some(d) : d \in OutData} :
       LET out == OutputLoc(page, temp_dir[1], widgets)
           ran == o.kind \in {"exit", "timeout"}
       IN /\ wr # None => (ran /\ CanWrite(dirs, out))
          /\ proc' = [kind |-> o.kind, returncode |-> o.returncode,
                      success |-> command_success(o.kind, o.returncode),
                      needed |-> o.needed]
          /\ fs' = IF wr # None THEN WriteFile(fs, out, wr[1]) ELSE fs
          /\ spawned' = spawned + Attempts(o)
  /\ pc' = "invoked"
  /\ UNCHANGED <<session, zip_clear_trigger, page, widgets, temp_dir, fault, dirs,
                 status_msg, download, notices>>
  /\ UNCHANGED call

\* a success branch taken on the existence of the output file alone
RecordSuccessIgnoresExit(success, exists) == exists

\* the condition of the success branch
RecordSuccess(success, exists) == success /\ exists

\* what the success branch stores in the session state
HeldResult(p, w, data) ==
  [output_content |-> Some(data),
   output_filename |-> Some(OutputNameUsed(p, w)),
   operation_status |-> "success"]

\* classification of the outcome, reading of the output, presentation
Record ==
  /\ pc = "invoked"
  /\ LET out == OutputLoc(page, temp_dir[1], widgets)
         exists == path_exists(fs, dirs,
                     path_join(TempDirPath(temp_dir[1]), OutputNameUsed(page, widgets)))
     IN IF RecordSuccess(proc.success, exists)
        THEN \/ /\ HandleException("read")
                /\ UNCHANGED <<download, fs>>
             \/ /\ out \in DOMAIN fs
                /\ session' = [session EXCEPT ![page] =
                                 HeldResult(page, widgets, fs[out].data)]
                /\ status_msg' = "successful"
                /\ download' = Offer(session'[page])
                /\ pc' = "recorded"
                /\ UNCHANGED <<fault, fs>>
             \/ /\ out \in DOMAIN fs
                /\ fault' = "present"
                /\ session' = [session EXCEPT ![page] =
                                 [HeldResult(page, widgets, fs[out].data)
                                    EXCEPT !.operation_status = "fail"]]
                /\ status_msg' = "An error occurred during processing"
                /\ pc' = "recorded"
                /\ UNCHANGED <<download, fs>>
        ELSE /\ session' = [session EXCEPT ![page].operation_status = "fail"]
             /\ status_msg' = "failed"
             /\ pc' = "recorded"
             /\ \/ fs' = fs
                \/ /\ out \in DOMAIN fs
                   /\ fs' = RemoveFile(fs, out)
             /\ UNCHANGED <<fault, download>>
  /\ UNCHANGED <<zip_clear_trigger, page, widgets, temp_dir, proc, dirs, notices,
                 spawned>>
  /\ UNCHANGED call

\* a finally block that removes the workspace only after a success
CleanupOnSuccessOnly ==
  /\ pc = "recorded"
  /\ IF temp_dir # None /\ temp_dir[1] \in dirs
        /\ session[page].operation_status = "success"
     THEN /\ dirs' = dirs \ {temp_dir[1]}
          /\ fs' = Aged(RemoveTree(fs, temp_dir[1]))
     ELSE /\ fs' = Aged(fs)
          /\ UNCHANGED dirs
  /\ pc' = "idle"
  /\ UNCHANGED <<session, zip_clear_trigger, page, widgets, temp_dir, proc, fault,
                 status_msg, download, notices, spawned>>
  /\ UNCHANGED call

\* the finally block of the run branch, which ends the pass
Cleanup ==
  /\ pc = "recorded"
  /\ IF temp_dir # None /\ temp_dir[1] \in dirs
     THEN \/ /\ dirs' = dirs \ {temp_dir[1]}
             /\ fs' = Aged(RemoveTree(fs, temp_dir[1]))
             /\ UNCHANGED notices
          \/ /\ notices' = notices \cup {"cleanup_warning"}
             /\ fs' = Aged(fs)
             /\ UNCHANGED dirs
     ELSE /\ fs' = Aged(fs)
          /\ UNCHANGED <<dirs, notices>>
  /\ pc' = "idle"
  /\ UNCHANGED <<session, zip_clear_trigger, page, widgets, temp_dir, proc, fault,
                 status_msg, download, spawned>>
  /\ UNCHANGED call

\* a widget keeps its value over a rerun exactly when its identity is unchanged
KeptOrDefault(p, wname, old, new, value) ==
  IF WidgetKey(p, wname, new) = WidgetKey(p, wname, old) THEN value
  ELSE DefaultValue(wname)

\* the trigger after Clear All on page p
ClearedTrigger(p, trigger) == IF p = "zip" THEN trigger + 1 ELSE trigger

\* Clear All: reset of the held result, new widget identities, st.rerun()
Clear ==
  /\ InputsShown
  /\ ~PassCut
  /\ page = "zip" => zip_clear_trigger < MaxClears
  /\ session' = [session EXCEPT ![page] = EmptyResult]
  /\ zip_clear_trigger' = ClearedTrigger(page, zip_clear_trigger)
  /\ widgets' =
       [operation |-> widgets.operation,
        uploaded_file |-> KeptOrDefault(page, "uploaded_file", zip_clear_trigger,
                            zip_clear_trigger', widgets.uploaded_file),
        password |-> KeptOrDefault(page, "password", zip_clear_trigger,
                       zip_clear_trigger', widgets.password),
        password_confirm |-> KeptOrDefault(page, "password_confirm",
                               zip_clear_trigger, zip_clear_trigger',
                               widgets.password_confirm),
        output_filename_user |-> KeptOrDefault(page, "output_filename_user",
                                   zip_clear_trigger, zip_clear_trigger',
                                   widgets.output_filename_user)]
  /\ Render(page, widgets', session'[page])
  /\ NoRun
  /\ UNCHANGED page
  /\ UNCHANGED call

\* the script of a tool page is run again with nothing pressed
Rerun ==
  /\ pc = "idle"
  /\ page \in Pages
  /\ Render(page, widgets, session[page])
  /\ NoRun
  /\ UNCHANGED <<session, zip_clear_trigger, page, widgets>>
  /\ UNCHANGED call

\* a pass of a tool page in which shutil.which does not find the page's
\* command: the error is shown and st.stop() ends the pass before the session
\* state and the widgets are reached; widgets that are not rendered lose
\* their values
ToolMissing ==
  /\ pc = "idle"
  /\ page \in Pages
  /\ status_msg' = ToolMissingMessage
  /\ download' = None
  /\ notices' = {}
  /\ widgets' = DefaultWidgets
  /\ NoRun
  /\ UNCHANGED <<session, zip_clear_trigger, page, dirs, fs>>
  /\ UNCHANGED call

\* check_commands of the landing page: the missing commands, in order
check_commands(found) ==
  (IF OPENSSL_COMMAND \in found THEN <<>> ELSE <<OPENSSL_COMMAND>>)
    \o (IF ZIP_COMMAND \in found THEN <<>> ELSE <<ZIP_COMMAND>>)

\* the landing page's report of one missing command, and its closing line
MissingNotice(t) ==
  IF t = OPENSSL_COMMAND THEN "openssl not found" ELSE "zip not found"

PageEnd == "Developed with Streamlit."

HomeFound == "Required commands found!"
HomeNotFound == "Critical Error: command(s) not found"

\* a pass of the landing page; found is what shutil.which resolves
Home ==
  /\ page = HomePage
  /\ \E found \in SUBSET Tools :
       LET missing_commands == check_commands(found)
       IN /\ status_msg' = IF missing_commands = <<>> THEN HomeFound
                           ELSE HomeNotFound
          /\ notices' = {MissingNotice(missing_commands[i]) :
                           i \in 1..Len(missing_commands)} \cup {PageEnd}
  /\ UNCHANGED <<session, zip_clear_trigger, page, widgets, pc, temp_dir, proc,
                 fault, dirs, fs, download, spawned>>
  /\ UNCHANGED call

Next ==
  \/ SetOperation
  \/ Upload
  \/ SetPassword
  \/ SetPasswordConfirm
  \/ SetOutputName
  \/ DownloadClick
  \/ Submit
  \/ Stage
  \/ Invoke
  \/ Record
  \/ Cleanup
  \/ Clear
  \/ Rerun
  \/ ToolMissing

Spec == Init /\ [][Next]_vars

\* a tool page is chosen in the sidebar of the landing page and runs its first
\* pass, with its widgets new
OpenPage ==
  /\ page = HomePage
  /\ \E p \in Pages :
       /\ page' = p
       /\ widgets' = DefaultWidgets
       /\ \/ Render(p, widgets', session[p])
          \/ /\ status_msg' = ToolMissingMessage
             /\ download' = None
             /\ notices' = {}
             /\ UNCHANGED <<dirs, fs>>
  /\ NoRun
  /\ UNCHANGED <<session, zip_clear_trigger>>
  /\ UNCHANGED call

\* the held results with which the user is followed from one tool page to
\* the other: none, or a success of the tool under the name "b"
CarriedResults(p) ==
  {EmptyResult,
   [output_content |-> Some(ToolBytes),
    output_filename |-> Some(IF p = "zip" THEN actual_output_filename(NameB)
                             ELSE NameB),
    operation_status |-> "success"]}

\* the user is followed to the other page when no pass is under way, the
\* page holds one of these results, Clear All of the archive page has not
\* been used and no file is left on disk
LeavesPage ==
  /\ pc = "idle"
  /\ page \in Pages
  /\ session[page] \in CarriedResults(page)
  /\ zip_clear_trigger = 0
  /\ dirs = {}
  /\ fs = <<>>

\* the other tool page is chosen in the sidebar and runs its first pass; the
\* widgets of the page that is left are no longer rendered and lose their
\* values, the session state stays
SwitchPage ==
  /\ LeavesPage
  /\ \E p \in Pages \ {page} :
       /\ page' = p
       /\ widgets' = DefaultWidgets
       /\ \/ Render(p, widgets', session[p])
          \/ /\ status_msg' = ToolMissingMessage
             /\ download' = None
             /\ notices' = {}
             /\ UNCHANGED <<dirs, fs>>
  /\ NoRun
  /\ UNCHANGED <<session, zip_clear_trigger>>
  /\ UNCHANGED call

\* the session that starts on the landing page
NavNext ==
  \/ Next
  \/ Home
  \/ OpenPage
  \/ SwitchPage

NavSpec == NavInit /\ [][NavNext]_vars

\* ------------------------------------------- the helper functions alone
\* str.startswith, and the "in" operator on strings
StartsWith(s, pre) == IsPrefix(pre, s)

Contains(s, sub) ==
  \E i \in 1..(Len(s) - Len(sub) + 1) : SubSeq(s, i, i + Len(sub) - 1) = sub

\* the literals of the two wrappers, as character sequences
Mask == <<"*", "*", "*", "*", "*", "*", "*", "*">>
PassPrefix == <<"p", "a", "s", "s", ":">>
ArgOpenssl == <<"o", "p", "e", "n", "s", "s", "l">>
ArgEnc == <<"e", "n", "c">>
ArgCipher == <<"-", "a", "e", "s", "-", "2", "5", "6", "-", "c", "b", "c">>
ArgPbkdf2 == <<"-", "p", "b", "k", "d", "f", "2">>
ArgD == <<"-", "d">>
ArgPrint == <<"-", "p">>
ArgIn == <<"-", "i", "n">>
ArgOut == <<"-", "o", "u", "t">>
ArgPass == <<"-", "p", "a", "s", "s">>
ArgZip == <<"z", "i", "p">>
ArgJ == <<"-", "j">>
ArgE == <<"-", "e">>
ArgP == <<"-", "P">>
NothingToDo ==
  <<"n", "o", "t", "h", "i", "n", "g", " ", "t", "o", " ", "d", "o">>

\* args as the cipher page builds them (lines 206-212)
openssl_args(operation, input_file_path, output_file_path) ==
  <<ArgEnc, ArgCipher, ArgPbkdf2>>
    \o (IF operation = "Decrypt" THEN <<ArgD>> ELSE <<ArgPrint>>)
    \o <<ArgIn, input_file_path, ArgOut, output_file_path>>

\* command of run_openssl_command (lines 27-30)
openssl_command(args, password) ==
  <<ArgOpenssl>> \o args \o <<ArgPass, PassPrefix \o password>>

\* printable_command of run_openssl_command (line 32)
printable_openssl(command) ==
  [i \in 1..Len(command) |->
     IF ~StartsWith(command[i], PassPrefix) THEN command[i]
     ELSE PassPrefix \o Mask]

\* args as the archive page builds them (lines 175-178)
zip_args(password, output_file_path, input_file_path) ==
  <<ArgJ, ArgE, ArgP, password, output_file_path, input_file_path>>

\* command of run_zip_command (line 27)
zip_command(args) == <<ArgZip>> \o args

\* the loop that builds printable_command in run_zip_command (lines 28-38);
\* i counts from 1, so Python's i + 1 < len(command) is i < Len(command)
RECURSIVE printable_zip_loop(_, _, _, _)
printable_zip_loop(command, i, password_found, printable_command) ==
  IF i > Len(command) THEN printable_command
  ELSE IF command[i] = ArgP /\ i < Len(command)
       THEN printable_zip_loop(command, i + 1, TRUE,
                               printable_command \o <<command[i], Mask>>)
  ELSE IF password_found
       THEN printable_zip_loop(command, i + 1, FALSE, printable_command)
  ELSE printable_zip_loop(command, i + 1, password_found,
                          Append(printable_command, command[i]))

printable_zip(command) == printable_zip_loop(command, 1, FALSE, <<>>)

\* a marker test that does not lower the text first
zip_message_case_sensitive(returncode, stderr) ==
  IF returncode # 0
  THEN (IF Contains(stderr, NothingToDo) THEN "Zip Error: Nothing to zip."
        ELSE "Zip Error")
  ELSE IF stderr # <<>> THEN "Zip Messages (stderr)"
  ELSE "nothing"

\* what run_zip_command shows for an exit code and a standard-error text
\* (lines 44-52)
zip_message(returncode, stderr) ==
  IF returncode # 0
  THEN (IF Contains(LowerStr(stderr), NothingToDo) THEN "Zip Error: Nothing to zip."
        ELSE "Zip Error")
  ELSE IF stderr # <<>> THEN "Zip Messages (stderr)"
  ELSE "nothing"

\* what run_openssl_command shows (lines 44-49)
openssl_message(returncode, stderr) ==
  IF returncode # 0 THEN "OpenSSL Error"
  ELSE IF stderr # <<>> THEN "OpenSSL Messages (stderr)"
  ELSE "nothing"

\* the preview size limit, in bytes
PREVIEW_SIZE_LIMIT == 5 * 1024 * 1024

\* get_file_preview for a file of file_size bytes whose content is text or
\* not; reading the size or the content may raise (lines 64-97)
get_file_preview(file_size, is_likely_text, readable) ==
  IF ~readable THEN "(Error generating preview)"
  ELSE IF file_size = 0 THEN "(File is empty)"
  ELSE IF file_size > PREVIEW_SIZE_LIMIT THEN "(File is too large for preview)"
  ELSE IF is_likely_text THEN "Preview"
  ELSE "Hex Preview"

\* the inputs the helper functions are called on
PasswordTexts == {<<"p">>, <<"q", "1">>, ArgP}
StderrTexts ==
  {<<>>, <<"b", "a", "d">>,
   <<"N", "o", "t", "h", "i", "n", "g", " ", "t", "o", " ", "d", "o", "!">>}
ExitCodes == {0, 1, 12}
FileSizes == {0, 1, 256, PREVIEW_SIZE_LIMIT - 1, PREVIEW_SIZE_LIMIT,
              PREVIEW_SIZE_LIMIT + 1}

\* the calls page p can make of its helpers, before they have run
Calls(p) ==
  IF p = "enc"
  THEN {[fn |-> "get_file_preview", file_size |-> n, is_likely_text |-> t,
         readable |-> ok, result |-> None] :
          n \in FileSizes, t \in BOOLEAN, ok \in BOOLEAN}
       \cup
       {[fn |-> "run_openssl_command",
         args |-> openssl_args(op, path_join(TempDirPath(0), u),
                               path_join(TempDirPath(0), o)),
         password |-> pw, returncode |-> rc, stderr |-> e, result |-> None] :
          op \in Operations, u \in UploadNames, o \in OutputNames \ {NameEmpty},
          pw \in PasswordTexts, rc \in {0, 1}, e \in {<<>>, <<"b", "a", "d">>}}
  ELSE {[fn |-> "run_zip_command",
         args |-> zip_args(pw, path_join(TempDirPath(0), actual_output_filename(o)),
                           path_join(TempDirPath(0), u)),
         password |-> pw, returncode |-> rc, stderr |-> e, result |-> None] :
          u \in UploadNames, o \in OutputNames \ {NameEmpty},
          pw \in PasswordTexts, rc \in ExitCodes, e \in StderrTexts}

\* a helper is about to be called on a tool page
FnInit ==
  /\ SessionStart
  /\ page \in Pages
  /\ call \in Calls(page)

AppUnchanged ==
  UNCHANGED <<session, zip_clear_trigger, page, widgets, pc, temp_dir, proc,
              fault, dirs, fs, status_msg, download, notices, spawned>>

get_file_preview_call ==
  /\ call.fn = "get_file_preview"
  /\ call.result = None
  /\ call' = [call EXCEPT !.result =
                Some(get_file_preview(call.file_size, call.is_likely_text,
                                      call.readable))]
  /\ AppUnchanged

run_openssl_command_call ==
  /\ call.fn = "run_openssl_command"
  /\ call.result = None
  /\ LET command == openssl_command(call.args, call.password)
     IN call' = [call EXCEPT !.result =
                   Some([command |-> command,
                         printable_command |-> printable_openssl(command),
                         success |-> command_success("exit", call.returncode),
                         shown |-> openssl_message(call.returncode, call.stderr)])]
  /\ AppUnchanged

run_zip_command_call ==
  /\ call.fn = "run_zip_command"
  /\ call.result = None
  /\ LET command == zip_command(call.args)
     IN call' = [call EXCEPT !.result =
                   Some([command |-> command,
                         printable_command |-> printable_zip(command),
                         success |-> command_success("exit", call.returncode),
                         shown |-> zip_message(call.returncode, call.stderr)])]
  /\ AppUnchanged

FnNext ==
  \/ get_file_preview_call
  \/ run_openssl_command_call
  \/ run_zip_command_call

FnSpec == FnInit /\ [][FnNext]_vars

\* ---------------------------------------------------------------- claims
\* the last pass was a run that passed validation, and it has ended
RunConcluded == pc = "idle" /\ status_msg \in RunMessages

\* the last pass was a submission that validation rejected
Rejected == pc = "idle" /\ status_msg \in ValidationMessages

\* C1: once a run that passed validation has concluded, in whichever way, the
\* workspace directory it created no longer exists, unless its removal failed,
\* and then a warning was emitted.
C1_WorkspaceRemoved ==
  (RunConcluded /\ temp_dir # None) =>
     (temp_dir[1] \notin dirs \/ "cleanup_warning" \in notices)

\* a run whose tool timed out has concluded and its workspace is gone
C1_Witness ==
  /\ RunConcluded
  /\ temp_dir # None
  /\ proc.kind = "timeout"
  /\ temp_dir[1] \notin dirs
  /\ "cleanup_warning" \notin notices

\* C2: a submission with an empty password, with a password that differs from
\* its confirmation (Encrypt mode of the cipher page, always on the archive
\* page) or with an empty output filename is rejected with the matching message,
\* and has created no workspace and spawned no process; whatever run has a
\* workspace or a process has a non-empty password.
C2_ValidationFirst ==
  LET w == widgets
      empty_pw == w.password = ""
      mismatch == (page = "zip" \/ w.operation = "Encrypt")
                    /\ w.password # w.password_confirm
      empty_name == w.output_filename_user = <<>>
      invalid == empty_pw \/ mismatch \/ empty_name
  IN /\ (pc # "idle" \/ temp_dir # None \/ spawned > 0 \/ status_msg \in RunMessages)
          => ~invalid
     /\ Rejected =>
          /\ temp_dir = None
          /\ spawned = 0
          /\ proc = NoProc
          /\ status_msg = "Password cannot be empty." => empty_pw
          /\ status_msg = "Passwords do not match." => mismatch
          /\ status_msg \in {"Output filename cannot be empty.",
                              "Output ZIP filename cannot be empty."} => empty_name

\* a submission was rejected because the confirmation differs
C2_Witness == Rejected /\ status_msg = "Passwords do not match."

\* the tool exited with code 0
ExitZero == proc.kind = "exit" /\ proc.returncode = 0

\* the output file of the running request is on disk
OutputOnDisk ==
  temp_dir # None /\ OutputLoc(page, temp_dir[1], widgets) \in DOMAIN fs

\* C3 as claimed: a validated request is recorded as a success exactly when the
\* tool exited with code 0 and the output file exists; then the held bytes are
\* the file's bytes; otherwise it is recorded as a failure.
C3_Original ==
  pc = "recorded" =>
    LET st == session[page].operation_status
    IN /\ st = "success" <=> (ExitZero /\ OutputOnDisk)
       /\ st = "success" =>
            session[page].output_content
              = Some(fs[OutputLoc(page, temp_dir[1], widgets)].data)
       /\ ~(ExitZero /\ OutputOnDisk) => st = "fail"

\* C3 as amended: a validated request is recorded as a success exactly when the
\* tool exited with code 0, the output file exists and no exception was raised
\* while it was read and presented; then the held bytes are the file's bytes;
\* with a non-zero exit code or no output file it is recorded as a failure.
C3_SuccessClassification ==
  pc = "recorded" =>
    LET st == session[page].operation_status
    IN /\ st = "success" <=> (ExitZero /\ OutputOnDisk /\ fault = "none")
       /\ st = "success" =>
            session[page].output_content
              = Some(fs[OutputLoc(page, temp_dir[1], widgets)].data)
       /\ ~(ExitZero /\ OutputOnDisk) => st = "fail"
       /\ st \in {"success", "fail"}

\* a success was recorded and holds what the tool wrote
C3_Witness ==
  /\ pc = "recorded"
  /\ session[page].operation_status = "success"
  /\ session[page].output_content = Some(ToolBytes)
  /\ fs[OutputLoc(page, temp_dir[1], widgets)].data = ToolBytes

\* C4: at the end of every script run, output bytes are held if and only if
\* the held status is success, and a held success has bytes and a filename.
C4_Claim ==
  pc = "idle" =>
    \A p \in Pages :
      /\ session[p].output_content # None <=> session[p].operation_status = "success"
      /\ session[p].operation_status = "success" => session[p].output_filename # None

\* C5: while a successful result is held (no new submission, no clear), every
\* pass ends with that artifact offered for download, bytes and filename as held.
C5_Claim ==
  (pc = "idle" /\ session[page].operation_status = "success") =>
     download = Offer(session[page])

\* C6: Clear All empties the held result and gives every stateful input widget
\* a new identity, so that each shows its default value afterwards.
C6_Claim ==
  [][Clear =>
       /\ session'[page] = EmptyResult
       /\ \A wname \in StatefulWidgets :
            /\ WidgetKey(page, wname, zip_clear_trigger')
                 # WidgetKey(page, wname, zip_clear_trigger)
            /\ widgets'[wname] = DefaultValue(wname)]_vars

\* C7: the output path differs from the staged input's path, and the staged
\* input holds the uploaded bytes before and after the invocation.
C7_Claim ==
  (pc \in {"staged", "invoked", "recorded"} /\ temp_dir # None /\ fault # "write") =>
     /\ OutputLoc(page, temp_dir[1], widgets) # InputLoc(temp_dir[1], widgets)
     /\ InputLoc(temp_dir[1], widgets) \in DOMAIN fs
     /\ fs[InputLoc(temp_dir[1], widgets)].data = widgets.uploaded_file[1].data

\* loc lies below workspace n
Inside(n, loc) ==
  IsPrefix(Resolve(TempDirPath(n)), loc) /\ loc # Resolve(TempDirPath(n))

\* C8: the input path and the output path of a request lie inside its
\* workspace, and so does every file the request has written, so that none is
\* left once the workspace is removed.
C8_Claim ==
  (pc \in {"staged", "invoked", "recorded"} /\ temp_dir # None) =>
     /\ Inside(temp_dir[1], InputLoc(temp_dir[1], widgets))
     /\ Inside(temp_dir[1], OutputLoc(page, temp_dir[1], widgets))
     /\ \A q \in DOMAIN fs : fs[q].age = "cur" => Inside(temp_dir[1], q)

\* C9: the workspace a request gets is created for it: no directory of that
\* name existed (so it is no earlier request's workspace that is still
\* there), nothing lies in it at creation, and as long as the request runs it
\* holds no file that an earlier request staged or produced.
C9_FreshWorkspace ==
  [][/\ (temp_dir = None /\ temp_dir' # None) =>
          /\ temp_dir'[1] \notin dirs
          /\ temp_dir'[1] \in dirs'
          /\ FilesIn(fs, temp_dir'[1]) = {}
     /\ (pc' # "idle" /\ temp_dir' # None) =>
          \A q \in FilesIn(fs', temp_dir'[1]) : fs'[q].age = "cur"]_vars

\* a request is staged while the workspace of an earlier one, files and all,
\* is still on disk
C9_Witness ==
  /\ pc = "staged"
  /\ \E m \in dirs \ {temp_dir[1]} : FilesIn(fs, m) # {}
  /\ FilesIn(fs, temp_dir[1]) # {}

\* the last pass was a submission, and it has ended
SubmissionConcluded == RunConcluded \/ Rejected

\* the process is invoked only after staging, and a result is recorded only
\* after the invocation has returned
C10_Order ==
  /\ pc \in {"validated", "staged"} => spawned = 0 /\ proc = NoProc
  /\ pc = "staged" =>
       /\ temp_dir # None
       /\ InputLoc(temp_dir[1], widgets) \in DOMAIN fs
       /\ fs[InputLoc(temp_dir[1], widgets)].data = widgets.uploaded_file[1].data
  /\ spawned > 0 => temp_dir # None /\ fault \notin {"mkdtemp", "write"}
  /\ pc \in {"validated", "staged", "invoked"} =>
       session[page].operation_status = "None"
  /\ session[page].operation_status = "success" /\ SubmissionConcluded => ExitZero

\* C10 as claimed: the order holds, a result ("success" or "fail") is recorded
\* only once an invocation has returned, and every submitted operation ends
\* Succeeded or Failed with the cleanup done.
C10_Original ==
  /\ C10_Order
  /\ (pc = "recorded" \/ SubmissionConcluded) =>
       /\ session[page].operation_status \in {"success", "fail"}
       /\ proc # NoProc

\* C10 as amended: the order holds; every submission that passes validation
\* ends Succeeded or Failed with the cleanup block run, where a failure is
\* recorded without an invocation only when creating the workspace or staging
\* raised; a submission that validation rejects ends there, with no result
\* recorded, no workspace and no process.
C10_StateMachine ==
  /\ C10_Order
  /\ (pc = "recorded" \/ RunConcluded) =>
       /\ session[page].operation_status \in {"success", "fail"}
       /\ proc = NoProc =>
            fault \in {"mkdtemp", "write"} /\ session[page].operation_status = "fail"
  /\ RunConcluded =>
       (temp_dir = None \/ temp_dir[1] \notin dirs \/ "cleanup_warning" \in notices)
  /\ Rejected =>
       /\ session[page] = EmptyResult
       /\ temp_dir = None
       /\ spawned = 0

\* a run failed while staging, without an invocation, and was cleaned up
C10_Witness ==
  /\ RunConcluded
  /\ fault = "write"
  /\ session[page].operation_status = "fail"
  /\ temp_dir # None
  /\ temp_dir[1] \notin dirs

\* C11: the invocation is bounded by a timeout of 60 seconds on the cipher page
\* and 120 seconds on the archive page: a tool that needs longer is cut off,
\* one that needs no longer is not.  When it is cut off the wrapper returns a
\* failure and raises nothing, the status becomes "fail", no output bytes are
\* held or offered, and once the run has ended the workspace is gone (or its
\* removal failed and the warning was emitted).
C11_TimeoutFails ==
  /\ proc.kind \in {"exit", "timeout"} =>
       (proc.kind = "timeout" <=> proc.needed > (IF page = "enc" THEN 60 ELSE 120))
  /\ proc.kind = "timeout" =>
       /\ ~proc.success
       /\ fault = "none"
       /\ session[page].output_content = None
       /\ download = None
       /\ pc # "invoked" => session[page].operation_status = "fail"
       /\ pc = "idle" =>
            (temp_dir[1] \notin dirs \/ "cleanup_warning" \in notices)

\* the archive tool needed 150 seconds: the run failed and was cleaned up
C11_Witness ==
  /\ page = "zip"
  /\ RunConcluded
  /\ proc.kind = "timeout"
  /\ proc.needed = 150
  /\ session[page].operation_status = "fail"
  /\ temp_dir[1] \notin dirs

\* the tool could not be started, or exited with a non-zero code
ToolFailed ==
  proc.kind = "notfound" \/ (proc.kind = "exit" /\ proc.returncode # 0)

\* C12: when the binary is not found at invocation time or the tool exits with
\* a non-zero code, the wrapper returns a failure and raises nothing, the
\* status becomes "fail", no output bytes are held, and once the run has ended
\* the cleanup has run and no output file is left on disk (unless the removal
\* of the workspace failed and the warning was emitted).
C12_Claim ==
  ToolFailed =>
    /\ ~proc.success
    /\ fault = "none"
    /\ session[page].output_content = None
    /\ pc # "invoked" => session[page].operation_status = "fail"
    /\ pc = "idle" =>
         \/ "cleanup_warning" \in notices
         \/ /\ temp_dir[1] \notin dirs
            /\ OutputLoc(page, temp_dir[1], widgets) \notin DOMAIN fs

\* C13: a submission spawns at most one process; a process is spawned only by
\* the invocation step of a submission that has no result yet; and while the
\* held status is "fail" no process is spawned.
C13_NoRetry ==
  [][/\ spawned' <= 1
     /\ spawned' > spawned =>
          /\ pc = "staged"
          /\ spawned = 0
          /\ session[page].operation_status = "None"
     /\ session[page].operation_status = "fail" => spawned' <= spawned]_vars

\* a run whose tool exited with code 1 has ended in failure, one process spawned
C13_Witness ==
  /\ RunConcluded
  /\ proc.kind = "exit"
  /\ proc.returncode = 1
  /\ spawned = 1
  /\ session[page].operation_status = "fail"

\* C14: a failure to remove a temporary directory is a warning and nothing
\* more: the step that removes the workspace of a run leaves the held result,
\* the status text and the offer as they are, and no pass that creates a
\* temporary directory (run or input preview) ends in an unhandled exception.
C14_Claim ==
  [][/\ Cleanup =>
          /\ session' = session
          /\ status_msg' = status_msg
          /\ download' = download
     /\ "exception" \notin notices']_vars

\* C15: when a required command is not found, the tool page validates
\* nothing, creates no workspace, spawns no process and leaves the held result
\* unchanged, and the landing page reports the missing commands and stops
\* there.
C15_Claim ==
  [][/\ ToolMissing =>
          /\ UNCHANGED <<session, dirs, fs>>
          /\ status_msg' \notin ValidationMessages
          /\ temp_dir' = None
          /\ spawned' = 0
     /\ (Home /\ status_msg' = HomeNotFound) =>
          /\ notices' \cap {MissingNotice(t) : t \in Tools} # {}
          /\ PageEnd \notin notices']_vars

\* the helper call under examination has returned r
Returned(fn) == call.fn = fn /\ call.result # None

\* C16 as claimed: whenever the standard-error text contains "nothing to do",
\* in any case of letters, the archive wrapper shows the "Nothing to zip"
\* diagnostic, whatever the exit code.
C16_Original ==
  (Returned("run_zip_command") /\ Contains(LowerStr(call.stderr), NothingToDo)) =>
     call.result[1].shown = "Zip Error: Nothing to zip."

\* C16 as amended: the archive wrapper shows the "Nothing to zip" diagnostic
\* exactly when the exit code is not 0 and the standard-error text contains
\* "nothing to do" in any case of letters; with exit code 0 a non-empty text is
\* shown as the tool's messages, marker or not.
C16_NothingToZip ==
  Returned("run_zip_command") =>
    /\ call.result[1].shown = "Zip Error: Nothing to zip."
         <=> (call.returncode # 0 /\ Contains(LowerStr(call.stderr), NothingToDo))
    /\ (call.returncode = 0 /\ call.stderr # <<>>) =>
         call.result[1].shown = "Zip Messages (stderr)"

\* exit code 12 with "Nothing to do!" on standard error was given the
\* specific diagnostic
C16_Witness ==
  /\ Returned("run_zip_command")
  /\ call.returncode = 12
  /\ Contains(call.stderr, <<"N", "o", "t", "h", "i", "n", "g">>)
  /\ call.result[1].shown = "Zip Error: Nothing to zip."

\* C17: get_file_preview reports a zero-byte file as empty, and for a file of
\* 5 * 1024 * 1024 bytes or more it returns the size notice (the file being
\* one whose size and content can be read).
C17_Claim ==
  (Returned("get_file_preview") /\ call.readable) =>
    /\ call.file_size = 0 => call.result[1] = "(File is empty)"
    /\ call.file_size >= 5 * 1024 * 1024 =>
         call.result[1] = "(File is too large for preview)"

\* C18: a submission resets the held result before it validates: a rejected
\* submission ends with bytes, filename and status unset and nothing offered,
\* and so does a submission that passed validation until its result is known.
C18_ResetBeforeValidation ==
  /\ Rejected => (session[page] = EmptyResult /\ download = None)
  /\ pc \in {"validated", "staged", "invoked"} => session[page] = EmptyResult

\* a submission was rejected after the tool of an earlier request had written
\* its output (to a place that outlives the workspace); nothing is held
C18_Witness ==
  /\ Rejected
  /\ session[page] = EmptyResult
  /\ download = None
  /\ Resolve(NameAbs) \in DOMAIN fs

\* C19: the command passed to the process is the command as built; the
\* printable command has its length, shows the mask where the password is,
\* has no argument equal to the password or to the argument that carries it,
\* and agrees with the command everywhere else.
C19_Claim ==
  (Returned("run_zip_command") \/ Returned("run_openssl_command")) =>
    LET zip == call.fn = "run_zip_command"
        real == IF zip THEN zip_command(call.args)
                ELSE openssl_command(call.args, call.password)
        k == IF zip THEN 5 ELSE Len(real)
        masked == IF zip THEN Mask ELSE PassPrefix \o Mask
        r == call.result[1]
    IN /\ r.command = real
       /\ Len(r.printable_command) = Len(real)
       /\ r.printable_command[k] = masked
       /\ \A i \in 1..Len(real) :
            /\ r.printable_command[i] # call.password
            /\ r.printable_command[i] # real[k]
            /\ i # k => r.printable_command[i] = real[i]

\* C20: on the archive page a held success has a filename that ends with
\* ".zip" in any case of letters; when the run records it and until the next
\* pass it is the name the user entered if that ends with ".zip" in any case
\* of letters and that name with ".zip" appended otherwise, it is the name
\* of the offered download, and the output file was read from the workspace
\* path of that name.
C20_ZipName ==
  (page = "zip" /\ session[page].operation_status = "success") =>
    /\ session[page].output_filename # None
    /\ EndsWith(LowerStr(session[page].output_filename[1]), DotZip)
    /\ (pc = "recorded" \/ RunConcluded) =>
         LET user == widgets.output_filename_user
             name == session[page].output_filename[1]
         IN /\ name = IF EndsWith(LowerStr(user), DotZip) THEN user
                      ELSE user \o DotZip
            /\ download = Some([data |-> session[page].output_content[1],
                                file_name |-> name])
            /\ pc = "recorded" =>
                 LET loc == Resolve(path_join(TempDirPath(temp_dir[1]), name))
                 IN /\ loc \in DOMAIN fs
                    /\ fs[loc].data = session[page].output_content[1]

\* a name ending in ".ZIP" was kept as entered for a successful archive
C20_Witness ==
  /\ page = "zip"
  /\ RunConcluded
  /\ session[page].operation_status = "success"
  /\ widgets.output_filename_user = NameAZip
  /\ session[page].output_filename = Some(NameAZip)
  /\ download # None

\* C21: the two tool pages hold their results apart: no step (submission,
\* failure, re-render, Clear All, change of page) changes the bytes, the
\* filename or the status held for a page other than the one whose script
\* runs, and the clear-generation counter changes only in a Clear All of the
\* archive page, by +1.
C21_DisjointResults ==
  [][/\ \A q \in Pages : q # page' => session'[q] = session[q]
     /\ zip_clear_trigger' # zip_clear_trigger =>
          /\ Clear
          /\ page = "zip"
          /\ zip_clear_trigger' = zip_clear_trigger + 1]_vars

\* with a success of the cipher page held, the archive page was cleared and
\* then ran a submission that failed; the cipher page's result is as it was
C21_Witness ==
  /\ page = "zip"
  /\ zip_clear_trigger = 1
  /\ RunConcluded
  /\ session["zip"].operation_status = "fail"
  /\ session["enc"] = [output_content |-> Some(ToolBytes),
                       output_filename |-> Some(NameB),
                       operation_status |-> "success"]
====
